---- MODULE Spec2Model ----
(***************************************************************************)
(* The rate-limiting layer of src/lib/rateLimiter.ts and the route         *)
(* handlers that await it (src/pages/api/comments/index.ts and others).    *)
(*                                                                         *)
(* Time is in milliseconds.  A retryAfter value of a 429 body is kept in   *)
(* thousandths of a second (retryAfter * 1000), because the Redis branch   *)
(* answers config.windowMs / 1000, which need not be a whole number.       *)
(* Redis values are the decimal strings written by setEx '1' and INCR; the *)
(* model keeps them as the integers parseInt reads back.                   *)
(***************************************************************************)
EXTENDS Integers, Sequences, FiniteSets, Bags, TLC

VARIABLES
    now,          \* Date.now() and the Redis server's clock
    redisUrl,     \* whether process.env.REDIS_URL is set
    redisClient,  \* the module-level redisClient: NoClient, or the client's state
    janitor,      \* whether the cleanup setInterval was installed at module load
    nextSweep,    \* when the cleanup timer is next due
    memoryStore,  \* the module-level memoryStore: key -> [count, resetTime]
    redisStore,   \* the Redis keyspace: key -> [val, expireAt]
    inflight,     \* the invocations awaiting a Redis reply (a bag)
    fin,          \* the invocation whose limiter has just decided, if any
    watched,      \* observer: the key whose windows the observer follows
    win,          \* observer: the window currently open for the watched key
    obs,          \* observer: the circumstances of each invocation's decision
    event,        \* the Event document in MongoDB
    attending,    \* the handleAttend invocations awaiting MongoDB (a bag)
    likes,        \* the Like collection in MongoDB (a bag of documents)
    liking,       \* the handleLike / handleUnlike invocations awaiting MongoDB
    answer        \* the response sent last by one of these handlers

limiterVars ==
    <<now, redisUrl, redisClient, janitor, nextSweep, memoryStore, redisStore,
      inflight, fin, watched, win, obs>>

appVars == <<event, attending, likes, liking, answer>>

vars == <<limiterVars, appVars>>

-----------------------------------------------------------------------------
(* Bounds of the model *)

MaxTicks == 3
MaxReqs == 2

TickSteps == {500}
MaxNow == MaxTicks * 500

-----------------------------------------------------------------------------
(* Requests and limiter configurations *)

NoUser == ""
NoAddr == ""
NoUrl == ""

\* A request as the route handler receives it: req.user (set by nothing before
\* the limiter runs), req.connection.remoteAddress, and the userId of the
\* bearer token it carries, which requireAuth verifies and puts into req.user
\* once the limiter has let the request through
Clients == { [user |-> NoUser, addr |-> "10.0.0.1", token |-> NoUser] }

\* RateLimitConfig values handed to createRateLimiter
LimitOne == [windowMs |-> 1000, maxRequests |-> 1, message |-> "limit one"]
LimitTwo == [windowMs |-> 500, maxRequests |-> 2, message |-> "limit two"]

\* Routes in the manner of pages/api/comments (one limiter for POST, another
\* for the other methods) and of pages/api/auth/register (one limiter)
TestRoutes ==
    { [url |-> "/api/comments", method |-> "POST", limiter |-> LimitOne],
      [url |-> "/api/comments", method |-> "GET", limiter |-> LimitTwo],
      [url |-> "/api/auth/register", method |-> "POST", limiter |-> LimitOne] }

Urls == { rt.url : rt \in TestRoutes }

NoConfig == [windowMs |-> 0, maxRequests |-> 0, message |-> ""]

IdentifierAddrFirst(c) ==
    IF c.addr # NoAddr THEN c.addr
    ELSE IF c.user # NoUser THEN c.user
    ELSE "unknown"

\* const identifier = req.user?.id || req.connection.remoteAddress || 'unknown'
Identifier(c) ==
    IF c.user # NoUser THEN c.user
    ELSE IF c.addr # NoAddr THEN c.addr
    ELSE "unknown"

\* const key = `rate_limit:${identifier}:${req.url || 'default'}`
KeyOf(c, url) ==
    "rate_limit:" \o Identifier(c) \o ":" \o (IF url # NoUrl THEN url ELSE "default")

Keys == { KeyOf(c, u) : c \in Clients, u \in Urls }

\* Math.ceil(ms / 1000), for ms of either sign
CeilSeconds(ms) == IF ms >= 0 THEN (ms + 999) \div 1000 ELSE -((-ms) \div 1000)

-----------------------------------------------------------------------------
(* The state of one route handler invocation *)

NoClient == "null"

NoBody == [success |-> TRUE, error |-> "", retryAfter |-> -1]

\* pc: idle, or awaiting get / setEx / incr, or done (the limiter has decided)
\* req: the request; nexts, sent: how often next() was called and a response
\* sent; returned: whether the route handler has run to its return
NoReq == [user |-> NoUser, addr |-> NoAddr, token |-> NoUser, url |-> NoUrl]

IdleReq ==
    [pc |-> "idle", key |-> "", config |-> NoConfig, current |-> 0,
     nextCalled |-> FALSE, status |-> 0, body |-> NoBody,
     downstream |-> FALSE, threw |-> FALSE,
     req |-> NoReq, nexts |-> 0, sent |-> 0, returned |-> FALSE]

IdleObs ==
    [backend |-> "none", seen |-> FALSE, decision |-> "none", failedOp |-> "none",
     admBefore |-> 0, adm |-> 0, wok |-> FALSE, cross |-> FALSE,
     elapsed |-> FALSE, prevCount |-> 0, countAfter |-> 0]

\* the finished invocation has been released
Quiet == fin.pc = "idle"

\* another invocation is inside the Redis branch for the same key
OthersInFlight(q, key) ==
    \E o \in BagToSet(inflight) :
        o.key = key /\ (o # q \/ CopiesIn(q, inflight) > 1)

-----------------------------------------------------------------------------
(* The limiter's code, piece by piece *)

MemoryExpiredOnlyWhenAbsent(store, key, t) == key \notin DOMAIN store

\* if (!record || now > record.resetTime)
MemoryExpired(store, key, t) ==
    key \notin DOMAIN store \/ t > store[key].resetTime

NewRecordFromZero(t, config) == [count |-> 0, resetTime |-> t + config.windowMs]

\* memoryStore[key] = { count: 1, resetTime: now + config.windowMs }
NewRecord(t, config) == [count |-> 1, resetTime |-> t + config.windowMs]

LimitExceededStrict(count, config) == count > config.maxRequests

\* if (count >= config.maxRequests), in both branches
LimitExceeded(count, config) == count >= config.maxRequests

\* retryAfter: Math.ceil((record.resetTime - now) / 1000), in thousandths
MemoryRetryAfter(record, t) == CeilSeconds(record.resetTime - t) * 1000

\* retryAfter: config.windowMs / 1000, in thousandths
RedisRetryAfter(config) == config.windowMs

\* Math.ceil(config.windowMs / 1000), the seconds handed to setEx
RedisTtlSeconds(config) == CeilSeconds(config.windowMs)

PutAlone(store, key, rec) == (key :> rec)

\* store[key] = rec
Put(store, key, rec) == (key :> rec) @@ store

\* record.count++
Increment(store, key) == [store EXCEPT ![key].count = @ + 1]

CallNextSendsOk(q) ==
    [q EXCEPT !.pc = "done", !.nextCalled = TRUE, !.downstream = TRUE,
              !.status = 200]

\* next(): the route's promise resolves and the handler runs on past its await
\* (whose code after the await runs to a return in every branch)
CallNext(q) ==
    [q EXCEPT !.pc = "done", !.nextCalled = TRUE, !.downstream = TRUE,
              !.nexts = @ + 1, !.returned = TRUE]

RejectSilently(q, retryAfter) == [q EXCEPT !.pc = "done"]

RejectThenNext(q, retryAfter) ==
    [q EXCEPT !.pc = "done", !.status = 429, !.nextCalled = TRUE,
              !.downstream = TRUE,
              !.body = [success |-> FALSE, error |-> q.config.message,
                        retryAfter |-> retryAfter]]

\* return res.status(429).json({success: false, error: config.message, retryAfter})
Reject(q, retryAfter) ==
    [q EXCEPT !.pc = "done", !.status = 429, !.sent = @ + 1,
              !.body = [success |-> FALSE, error |-> q.config.message,
                        retryAfter |-> retryAfter]]

OnErrorRethrow(q) == [q EXCEPT !.pc = "done", !.threw = TRUE]

\* catch (error) { console.error(...); return next(); }
OnError(q) == CallNext(q)

\* the Redis server: keys whose expiry has come are gone
NoExpire == -1
RedisLive(store, t) ==
    [k \in {x \in DOMAIN store : store[x].expireAt = NoExpire \/ t < store[x].expireAt}
        |-> store[k]]

\* SETEX key seconds '1', executed at time t
RedisSetEx(store, key, seconds, t) ==
    Put(store, key, [val |-> 1, expireAt |-> t + seconds * 1000])

\* INCR key: an absent key is created as 1 and carries no expiry
RedisIncr(store, key) ==
    IF key \in DOMAIN store
    THEN [store EXCEPT ![key].val = @ + 1]
    ELSE Put(store, key, [val |-> 1, expireAt |-> NoExpire])

\* GET key: null (0 here) for an absent key
RedisNil == 0
RedisGet(store, key) == IF key \in DOMAIN store THEN store[key].val ELSE RedisNil

\* the cleanup timer's interval
SweepIntervalMs == 60000

SweepAll(store, t) == [k \in {} |-> store[k]]

SweepAtResetTime(store, t) ==
    [k \in {x \in DOMAIN store : ~(t >= store[x].resetTime)} |-> store[k]]

\* the sweep: delete every record with now > record.resetTime
Sweep(store, t) ==
    [k \in {x \in DOMAIN store : ~(t > store[x].resetTime)} |-> store[k]]

\* the memory-store branch as a function of the store, the clock and the
\* limiter: its decision, the retryAfter it answers (none when it admits) and
\* the record it leaves for the key
MemoryOutcome(store, key, t, config) ==
    IF MemoryExpired(store, key, t)
    THEN [decision |-> "admit", retryAfter |-> NoBody.retryAfter,
          record |-> NewRecord(t, config)]
    ELSE IF LimitExceeded(store[key].count, config)
    THEN [decision |-> "reject", retryAfter |-> MemoryRetryAfter(store[key], t),
          record |-> store[key]]
    ELSE [decision |-> "admit", retryAfter |-> NoBody.retryAfter,
          record |-> Increment(store, key)[key]]

-----------------------------------------------------------------------------
(* The observer's bookkeeping (no part of the program) *)

Empty == [k \in {} |-> 0]

\* a check opened a window: its start (kept for the memory store only, whose
\* records carry a reset time), the limiter, the admissions so far, and
\* whether the window has seen one limiter, one check at a time and no failure
WinFresh(start, config, ok) ==
    [start |-> start, config |-> config, adm |-> 1, ok |-> ok]

NoWin == [start |-> 0, config |-> NoConfig, adm |-> 0, ok |-> FALSE]
WinOf(key) == IF key \in DOMAIN win THEN win[key] ELSE NoWin

\* the observer notes the window of the watched key only
Note(key, w) == IF key = watched THEN (key :> w) @@ win ELSE win

\* the observer stops counting at CountCap, above every limit of the model
CountCap == 61
Capped(n) == IF n > CountCap THEN CountCap ELSE n

WinCount(w, config, admitted, ok) ==
    [w EXCEPT !.adm = Capped(@ + (IF admitted THEN 1 ELSE 0)),
              !.ok = @ /\ ok /\ config = w.config]

WinSpoil(w, key) ==
    IF key \in DOMAIN w THEN [w EXCEPT ![key].ok = FALSE] ELSE w

\* windowMs has elapsed past the start of the key's window
Elapsed(key) ==
    key \in DOMAIN win /\ now > win[key].start + win[key].config.windowMs

\* w is the key's window after the decision, oldw the one the check found
\* (w itself when the check opened the window)
ObsDecision(o, decision, w, config, oldw) ==
    [o EXCEPT !.decision = decision, !.wok = w.ok, !.adm = w.adm,
              !.admBefore = IF decision = "admit" THEN w.adm - 1 ELSE w.adm,
              !.cross = (oldw.config # config)]

-----------------------------------------------------------------------------
(* Module load *)

SweepPhases == {500, 1000}

\* no event, no like and no request of the events and likes routes
NoEvent == [current_attendees |-> 0, max_attendees |-> 0]
NoAnswer ==
    [handler |-> "none", status |-> 0, message |-> "", liked |-> FALSE, count |-> 0,
     caught |-> 0]

AppIdle ==
    /\ event = NoEvent
    /\ attending = EmptyBag
    /\ likes = EmptyBag
    /\ liking = EmptyBag
    /\ answer = NoAnswer

Loaded(keys) ==
    /\ now = 0
    /\ redisUrl \in BOOLEAN
    \* initRedis() runs to its first await: createClient has set redisClient,
    \* unless REDIS_URL is unset or require/createClient threw
    /\ redisClient \in (IF redisUrl THEN {"connecting", NoClient} ELSE {NoClient})
    \* if (!redisClient) setInterval(...), evaluated once at load
    /\ janitor = (redisClient = NoClient)
    /\ nextSweep \in (IF janitor THEN SweepPhases ELSE {0})
    /\ memoryStore = Empty
    /\ redisStore = Empty
    /\ inflight = EmptyBag
    /\ fin = IdleReq
    /\ obs = IdleObs
    /\ watched \in keys
    /\ win = Empty
    /\ AppIdle

Init == Loaded(Keys)

-----------------------------------------------------------------------------
(* The limiter function returned by createRateLimiter(config) *)

\* the memory-store branch, which runs without an await
LimiterMemory(req, key, config) ==
    LET q == [IdleReq EXCEPT !.req = req, !.key = key, !.config = config]
        o == [IdleObs EXCEPT !.backend = "memory", !.seen = (key = watched),
                 !.elapsed = Elapsed(key),
                 !.prevCount = IF key \in DOMAIN memoryStore
                               THEN memoryStore[key].count ELSE 0]
    IN  IF MemoryExpired(memoryStore, key, now)
        THEN \* reset or create new record
             LET w == WinFresh(now, config, TRUE)
                 ns == Put(memoryStore, key, NewRecord(now, config))
             IN  /\ memoryStore' = ns
                 /\ fin' = CallNext(q)
                 /\ win' = Note(key, w)
                 /\ obs' = [ObsDecision(o, "admit", w, config, w)
                              EXCEPT !.countAfter = ns[key].count]
        ELSE IF LimitExceeded(memoryStore[key].count, config)
        THEN LET w == WinCount(WinOf(key), config, FALSE, TRUE)
             IN  /\ memoryStore' = memoryStore
                 /\ fin' = Reject(q, MemoryRetryAfter(memoryStore[key], now))
                 /\ win' = Note(key, w)
                 /\ obs' = [ObsDecision(o, "reject", w, config, WinOf(key))
                              EXCEPT !.countAfter = memoryStore[key].count]
        ELSE LET w == WinCount(WinOf(key), config, TRUE, TRUE)
                 ns == Increment(memoryStore, key)
             IN  /\ memoryStore' = ns
                 /\ fin' = CallNext(q)
                 /\ win' = Note(key, w)
                 /\ obs' = [ObsDecision(o, "admit", w, config, WinOf(key))
                              EXCEPT !.countAfter = ns[key].count]

\* the Redis branch up to its first await: redisClient.get(key) is issued
LimiterRedis(req, key, config) ==
    LET q == [IdleReq EXCEPT !.req = req, !.key = key, !.config = config,
                             !.pc = "get"]
    IN  /\ inflight' = inflight (+) SetToBag({q})
        /\ win' = IF \E o \in BagToSet(inflight) : o.key = key
                  THEN WinSpoil(win, key) ELSE win
        /\ UNCHANGED <<memoryStore, fin, obs>>

\* the req object of caller c's request for url
ReqOf(c, url) == [user |-> c.user, addr |-> c.addr, token |-> c.token, url |-> url]

HandlerAlwaysRedis(c, url, config, concurrent) ==
    /\ Quiet
    /\ BagCardinality(inflight) < concurrent
    /\ LimiterRedis(ReqOf(c, url), KeyOf(c, url), config)
    /\ UNCHANGED appVars
    /\ UNCHANGED <<now, redisUrl, redisClient, janitor, nextSweep, redisStore,
                   watched>>

\* A route handler is invoked and awaits the limiter it chose:
\*   await new Promise((resolve) => limiter(req, res, resolve))
\* The limiter builds its key and takes the branch of if (redisClient).
\* At most `concurrent` invocations are inside the Redis branch at a time.
Handler(c, url, config, concurrent) ==
    /\ Quiet
    /\ BagCardinality(inflight) < concurrent
    /\ IF redisClient # NoClient
       THEN LimiterRedis(ReqOf(c, url), KeyOf(c, url), config)
       ELSE LimiterMemory(ReqOf(c, url), KeyOf(c, url), config)
            /\ UNCHANGED inflight
    /\ UNCHANGED appVars
    /\ UNCHANGED <<now, redisUrl, redisClient, janitor, nextSweep, redisStore,
                   watched>>

\* what the observer knows of an invocation leaving the Redis branch
RedisObs(q) ==
    [IdleObs EXCEPT !.backend = "redis", !.seen = (q.key = watched),
                    !.prevCount = q.current]

\* const current = await redisClient.get(key) answers; the code runs on to its
\* next await or to its decision
RedisGetReply(q) ==
    /\ Quiet
    /\ q.pc = "get"
    /\ redisClient = "ready"
    /\ LET current == RedisGet(redisStore, q.key)
           rest == inflight (-) SetToBag({q})
       IN  IF current = RedisNil
           THEN \* first request in this window: setEx is issued
                /\ inflight' = rest (+) SetToBag({[q EXCEPT !.pc = "setEx"]})
                /\ UNCHANGED <<fin, win, obs>>
           ELSE IF LimitExceeded(current, q.config)
           THEN LET w == WinCount(WinOf(q.key), q.config, FALSE,
                                  ~OthersInFlight(q, q.key))
                    qc == [q EXCEPT !.current = current]
                IN  /\ inflight' = rest
                    /\ fin' = Reject(qc, RedisRetryAfter(q.config))
                    /\ win' = Note(q.key, w)
                    /\ obs' = [ObsDecision(RedisObs(qc), "reject", w, q.config,
                                           WinOf(q.key))
                                 EXCEPT !.countAfter = current]
           ELSE \* incr is issued
                /\ inflight' = rest (+) SetToBag({[q EXCEPT !.pc = "incr",
                                                            !.current = current]})
                /\ UNCHANGED <<fin, win, obs>>
    /\ UNCHANGED appVars
    /\ UNCHANGED <<now, redisUrl, redisClient, janitor, nextSweep, memoryStore,
                   redisStore, watched>>

\* await redisClient.setEx(key, Math.ceil(config.windowMs / 1000), '1') answers
RedisSetExReply(q) ==
    /\ Quiet
    /\ q.pc = "setEx"
    /\ redisClient = "ready"
    \* the server refuses a SETEX whose expire time is not positive: that call
    \* can only fail
    /\ RedisTtlSeconds(q.config) > 0
    /\ LET ns == RedisSetEx(redisStore, q.key, RedisTtlSeconds(q.config), now)
           w == IF q.key \in DOMAIN redisStore
                THEN WinCount(WinOf(q.key), q.config, TRUE, FALSE)
                ELSE WinFresh(0, q.config, ~OthersInFlight(q, q.key))
           oldw == IF q.key \in DOMAIN redisStore THEN WinOf(q.key) ELSE w
       IN  /\ redisStore' = ns
           /\ inflight' = inflight (-) SetToBag({q})
           /\ fin' = CallNext(q)
           /\ win' = Note(q.key, w)
           /\ obs' = [ObsDecision(RedisObs(q), "admit", w, q.config, oldw)
                        EXCEPT !.countAfter = ns[q.key].val]
    /\ UNCHANGED appVars
    /\ UNCHANGED <<now, redisUrl, redisClient, janitor, nextSweep, memoryStore,
                   watched>>

\* await redisClient.incr(key) answers
RedisIncrReply(q) ==
    /\ Quiet
    /\ q.pc = "incr"
    /\ redisClient = "ready"
    /\ LET ns == RedisIncr(redisStore, q.key)
           w == IF q.key \in DOMAIN redisStore
                THEN WinCount(WinOf(q.key), q.config, TRUE, ~OthersInFlight(q, q.key))
                ELSE WinFresh(0, q.config, ~OthersInFlight(q, q.key))
           oldw == IF q.key \in DOMAIN redisStore THEN WinOf(q.key) ELSE w
       IN  /\ redisStore' = ns
           /\ inflight' = inflight (-) SetToBag({q})
           /\ fin' = CallNext(q)
           /\ win' = Note(q.key, w)
           /\ obs' = [ObsDecision(RedisObs(q), "admit", w, q.config, oldw)
                        EXCEPT !.countAfter = ns[q.key].val]
    /\ UNCHANGED appVars
    /\ UNCHANGED <<now, redisUrl, redisClient, janitor, nextSweep, memoryStore,
                   watched>>

\* the awaited get, setEx or incr rejects (or redisClient has become null and
\* the call throws): control passes to the catch block
RedisFail(q) ==
    /\ Quiet
    /\ inflight' = inflight (-) SetToBag({q})
    /\ fin' = OnError(q)
    /\ obs' = [RedisObs(q) EXCEPT !.failedOp = q.pc, !.decision = "admit"]
    /\ win' = WinSpoil(win, q.key)
    /\ UNCHANGED appVars
    /\ UNCHANGED <<now, redisUrl, redisClient, janitor, nextSweep, memoryStore,
                   redisStore, watched>>

\* await redisClient.connect() succeeds
ConnectOk ==
    /\ Quiet
    /\ redisClient = "connecting"
    /\ redisClient' = "ready"
    /\ UNCHANGED appVars
    /\ UNCHANGED <<now, redisUrl, janitor, nextSweep, memoryStore, redisStore,
                   inflight, fin, watched, win, obs>>

\* await redisClient.connect() throws: catch { redisClient = null }
ConnectFail ==
    /\ Quiet
    /\ redisClient = "connecting"
    /\ redisClient' = NoClient
    /\ win' = Empty
    /\ UNCHANGED appVars
    /\ UNCHANGED <<now, redisUrl, janitor, nextSweep, memoryStore, redisStore,
                   inflight, fin, watched, obs>>

\* the setInterval callback of the memory-store cleanup
Janitor ==
    /\ Quiet
    /\ janitor
    /\ now >= nextSweep
    /\ memoryStore' = Sweep(memoryStore, now)
    /\ nextSweep' = nextSweep + SweepIntervalMs
    /\ UNCHANGED appVars
    /\ UNCHANGED <<now, redisUrl, redisClient, janitor, redisStore, inflight, fin,
                   watched, win, obs>>

\* time passes; the Redis server drops the keys whose expiry has come
Tick(d, limit) ==
    /\ Quiet
    /\ now + d <= limit
    /\ now' = now + d
    /\ redisStore' = RedisLive(redisStore, now + d)
    /\ UNCHANGED appVars
    /\ UNCHANGED <<redisUrl, redisClient, janitor, nextSweep, memoryStore,
                   inflight, fin, watched, win, obs>>

\* The finished invocation is over: next() has resolved the route's promise and
\* the handler has returned after its downstream work.
Release ==
    /\ fin.pc = "done"
    /\ fin.nextCalled
    /\ fin' = IdleReq
    /\ obs' = IdleObs
    /\ UNCHANGED appVars
    /\ UNCHANGED <<now, redisUrl, redisClient, janitor, nextSweep, memoryStore,
                   redisStore, inflight, watched, win>>

\* The limiter has returned without calling next(): the route's promise, whose
\* resolve function only the limiter held, stays pending, and the handler stays
\* suspended at its await.  Nothing more happens to the invocation.
Hang ==
    /\ fin.pc = "done"
    /\ ~fin.nextCalled
    /\ fin' = IdleReq
    /\ obs' = IdleObs
    /\ UNCHANGED appVars
    /\ UNCHANGED <<now, redisUrl, redisClient, janitor, nextSweep, memoryStore,
                   redisStore, inflight, watched, win>>

Next ==
    \/ \E c \in Clients, rt \in TestRoutes : Handler(c, rt.url, rt.limiter, MaxReqs)
    \/ \E q \in BagToSet(inflight) : RedisGetReply(q)
    \/ \E q \in BagToSet(inflight) : RedisSetExReply(q)
    \/ \E q \in BagToSet(inflight) : RedisIncrReply(q)
    \/ \E q \in BagToSet(inflight) : RedisFail(q)
    \/ ConnectOk
    \/ ConnectFail
    \/ Janitor
    \/ \E d \in TickSteps : Tick(d, MaxNow)
    \/ Release
    \/ Hang

Spec == Init /\ [][Next]_vars

\* What the runtime guarantees of these steps: a handler whose limiter has
\* decided runs on to its end, and a due timer fires.  Nothing in the code
\* bounds the time an awaited get, setEx, incr or connect takes to settle, so
\* no step that waits for the Redis client is fair.
SpecLive == Spec /\ WF_vars(Release) /\ WF_vars(Hang) /\ WF_vars(Janitor)

-----------------------------------------------------------------------------
(* The predefined limiters and the routes that use them *)

generalLimiter ==
    [windowMs |-> 60000, maxRequests |-> 60,
     message |-> "Too many requests, please try again later."]

uploadLimiterSix ==
    [windowMs |-> 600000, maxRequests |-> 6,
     message |-> "Upload limit exceeded, please wait before uploading again."]

uploadLimiter ==
    [windowMs |-> 600000, maxRequests |-> 5,
     message |-> "Upload limit exceeded, please wait before uploading again."]

authLimiter ==
    [windowMs |-> 60000, maxRequests |-> 5,
     message |-> "Too many authentication attempts, please try again later."]

commentLimiter ==
    [windowMs |-> 60000, maxRequests |-> 10,
     message |-> "Comment limit exceeded, please wait before posting again."]

marketplaceLimiter ==
    [windowMs |-> 3600000, maxRequests |-> 5,
     message |-> "Marketplace listing limit exceeded, please wait before creating another listing."]

\* if (method === 'POST') await <route's limiter> else await generalLimiter;
\* the register route awaits authLimiter and the likes route generalLimiter
\* whatever the method
Routes ==
    { [url |-> "/api/comments", method |-> "POST", limiter |-> commentLimiter],
      [url |-> "/api/comments", method |-> "GET", limiter |-> generalLimiter],
      [url |-> "/api/marketplace", method |-> "POST", limiter |-> marketplaceLimiter],
      [url |-> "/api/marketplace", method |-> "GET", limiter |-> generalLimiter],
      [url |-> "/api/uploads", method |-> "POST", limiter |-> uploadLimiter],
      [url |-> "/api/uploads", method |-> "GET", limiter |-> generalLimiter],
      [url |-> "/api/auth/register", method |-> "POST", limiter |-> authLimiter],
      [url |-> "/api/likes", method |-> "POST", limiter |-> generalLimiter] }

RouteKeys == { KeyOf(c, rt.url) : c \in Clients, rt \in Routes }

MaxRouteTicks == 2
RouteTickSteps == {60000}

\* the traffic of one behaviour goes to the watched key, one request at a time
InitRoutes == Loaded(RouteKeys)

NextRoutes ==
    \/ \E c \in Clients, rt \in Routes :
          /\ KeyOf(c, rt.url) = watched
          /\ Handler(c, rt.url, rt.limiter, 1)
    \/ \E q \in BagToSet(inflight) : RedisGetReply(q)
    \/ \E q \in BagToSet(inflight) : RedisSetExReply(q)
    \/ \E q \in BagToSet(inflight) : RedisIncrReply(q)
    \/ \E q \in BagToSet(inflight) : RedisFail(q)
    \/ ConnectOk
    \/ ConnectFail
    \/ Janitor
    \/ \E d \in RouteTickSteps : Tick(d, MaxRouteTicks * 60000)
    \/ Release
    \/ Hang

SpecRoutes == InitRoutes /\ [][NextRoutes]_vars

-----------------------------------------------------------------------------
(* Limiters built from configurations of any kind *)

\* createRateLimiter(config): returns the limiter function, which closes over
\* config as it was given; nothing is tested when the limiter is built
createRateLimiter(config) == config

AnyConfigs ==
    { [windowMs |-> w, maxRequests |-> m, message |-> "any"] :
        w \in {0, 500}, m \in {0, 2} }

AnyUrl == "/api/any"
AnyKeys == { KeyOf(c, AnyUrl) : c \in Clients }

InitConfigs == Loaded(AnyKeys)

NextConfigs ==
    \/ \E c \in Clients, config \in AnyConfigs :
          Handler(c, AnyUrl, createRateLimiter(config), 1)
    \/ \E q \in BagToSet(inflight) : RedisGetReply(q)
    \/ \E q \in BagToSet(inflight) : RedisSetExReply(q)
    \/ \E q \in BagToSet(inflight) : RedisIncrReply(q)
    \/ \E q \in BagToSet(inflight) : RedisFail(q)
    \/ ConnectOk
    \/ ConnectFail
    \/ Janitor
    \/ \E d \in TickSteps : Tick(d, MaxNow)
    \/ Release
    \/ Hang

SpecConfigs == InitConfigs /\ [][NextConfigs]_vars

-----------------------------------------------------------------------------
(* Requests of every make: with and without req.user, address and URL *)

AnyClients ==
    { [user |-> u, addr |-> a, token |-> NoUser] :
        u \in {NoUser, "u1"}, a \in {NoAddr, "10.0.0.1", "::1"} }

AnyUrls == {NoUrl, "/api/likes", "/api/comments"}

KeySpace == { KeyOf(c, u) : c \in AnyClients, u \in AnyUrls }

\* the traffic of one behaviour goes to the watched key, one request at a time
InitKeys == Loaded(KeySpace)

NextKeys ==
    \/ \E c \in AnyClients, u \in AnyUrls :
          /\ KeyOf(c, u) = watched
          /\ Handler(c, u, createRateLimiter(LimitTwo), 1)
    \/ \E q \in BagToSet(inflight) : RedisGetReply(q)
    \/ \E q \in BagToSet(inflight) : RedisSetExReply(q)
    \/ \E q \in BagToSet(inflight) : RedisIncrReply(q)
    \/ \E q \in BagToSet(inflight) : RedisFail(q)
    \/ ConnectOk
    \/ ConnectFail
    \/ Janitor
    \/ \E d \in TickSteps : Tick(d, MaxNow)
    \/ Release
    \/ Hang

SpecKeys == InitKeys /\ [][NextKeys]_vars

-----------------------------------------------------------------------------
(* Authenticated users posting comments *)

\* The req object of a request with a valid bearer token, as the comments
\* route receives it and hands it to commentLimiter: req.user is not set.
\* The handler calls requireAuth, which sets req.user = {id: decoded.userId},
\* only after the awaited limiter has let the request through.
Received(userId, addr) == [user |-> NoUser, addr |-> addr, token |-> userId]

\* two users behind one address
Senders == { Received(u, "10.0.0.1") : u \in {"alice", "bob"} }

CommentsUrl == "/api/comments"
SenderKeys == { KeyOf(c, CommentsUrl) : c \in Senders }

InitUsers == Loaded(SenderKeys)

NextUsers ==
    \/ \E c \in Senders : Handler(c, CommentsUrl, commentLimiter, 1)
    \/ \E q \in BagToSet(inflight) : RedisGetReply(q)
    \/ \E q \in BagToSet(inflight) : RedisSetExReply(q)
    \/ \E q \in BagToSet(inflight) : RedisIncrReply(q)
    \/ \E q \in BagToSet(inflight) : RedisFail(q)
    \/ ConnectOk
    \/ ConnectFail
    \/ Janitor
    \/ \E d \in RouteTickSteps : Tick(d, MaxRouteTicks * 60000)
    \/ Release
    \/ Hang

SpecUsers == InitUsers /\ [][NextUsers]_vars

-----------------------------------------------------------------------------
(* The events route: handleAttend and Event.addAttendee *)

MaxSeats == 3
MaxAttend == 2

\* the limiter at rest while the events and likes routes are looked at
Unloaded ==
    /\ now = 0
    /\ redisUrl = FALSE
    /\ redisClient = NoClient
    /\ janitor = TRUE
    /\ nextSweep = SweepIntervalMs
    /\ memoryStore = Empty
    /\ redisStore = Empty
    /\ inflight = EmptyBag
    /\ fin = IdleReq
    /\ obs = IdleObs
    /\ watched = ""
    /\ win = Empty

\* event.max_attendees && event.current_attendees >= event.max_attendees
\* (an unset max_attendees is 0 here)
EventFull(doc) ==
    doc.max_attendees # 0 /\ doc.current_attendees >= doc.max_attendees

\* EventSchema.methods.addAttendee, called on the handler's copy of the
\* document: it throws when the copy is full, else it issues the update
addAttendee(doc) == IF EventFull(doc) THEN "Event is full" ELSE "updateOne"

\* updateOne({ $inc: { current_attendees: 1 } }), as MongoDB applies it to the
\* stored document
IncAttendees(doc) == [doc EXCEPT !.current_attendees = @ + 1]

EventAnswer(status, message, count) ==
    [handler |-> "handleAttend", status |-> status, message |-> message,
     liked |-> FALSE, count |-> count, caught |-> 0]

\* an active, published, future event with or without max_attendees
InitAttend ==
    /\ Unloaded
    /\ event \in { [current_attendees |-> 0, max_attendees |-> m] : m \in 0..MaxSeats }
    /\ attending = EmptyBag
    /\ likes = EmptyBag
    /\ liking = EmptyBag
    /\ answer = NoAnswer

\* const event = await Event.findById(id) answers with the stored document; the
\* handler tests its copy for capacity and calls event.addAttendee(), which
\* tests the same copy and issues the update
AttendFind ==
    /\ BagCardinality(attending) < MaxAttend
    /\ event.current_attendees + BagCardinality(attending) < MaxSeats + MaxAttend
    /\ IF EventFull(event) \/ addAttendee(event) = "Event is full"
       THEN /\ answer' = EventAnswer(400, "Event is full", 0)
            /\ UNCHANGED attending
       ELSE /\ attending' = attending (+) SetToBag({[pc |-> "updateOne", doc |-> event]})
            /\ UNCHANGED answer
    /\ UNCHANGED <<event, likes, liking>>
    /\ UNCHANGED limiterVars

\* MongoDB applies the update of one invocation
AttendAdd(q) ==
    /\ q.pc = "updateOne"
    /\ event' = IncAttendees(event)
    /\ attending' = (attending (-) SetToBag({q}))
                        (+) SetToBag({[q EXCEPT !.pc = "findById"]})
    /\ UNCHANGED <<likes, liking, answer>>
    /\ UNCHANGED limiterVars

\* const updatedEvent = await Event.findById(id).select(...) answers and the
\* handler sends its response
AttendReply(q) ==
    /\ q.pc = "findById"
    /\ attending' = attending (-) SetToBag({q})
    /\ answer' = EventAnswer(200, "Successfully registered for event",
                             event.current_attendees)
    /\ UNCHANGED <<event, likes, liking>>
    /\ UNCHANGED limiterVars

NextAttend ==
    \/ AttendFind
    \/ \E q \in BagToSet(attending) : AttendAdd(q)
    \/ \E q \in BagToSet(attending) : AttendReply(q)

SpecAttend == InitAttend /\ [][NextAttend]_vars

-----------------------------------------------------------------------------
(* The likes route: handleLike, handleUnlike and the Like collection *)

MaxLiking == 2

LikeUsers == {"alice", "bob"}
TargetId == "e1"

\* the target types a request may name; the handlers accept the first only
\* of these two ('upload', 'marketplace_item', 'event')
TargetTypes == {"event", "comment"}
AcceptedTypes == {"upload", "marketplace_item", "event"}

LikeDoc(userId, targetType) ==
    [user_id |-> userId, target_type |-> targetType, target_id |-> TargetId]

\* Like.userLikesTarget: findOne({user_id, target_type, target_id})
userLikesTarget(coll, doc) == CopiesIn(doc, coll) > 0

\* Like.getLikeCount: countDocuments({target_type, target_id})
getLikeCount(coll, targetType) ==
    BagCardinality([d \in { x \in BagToSet(coll) : x.target_type = targetType }
                      |-> CopiesIn(d, coll)])

addLikeNoIndex(coll, doc) == [code |-> 0, coll |-> coll (+) SetToBag({doc})]

\* Like.addLike: create(doc) under the unique index on (user_id, target_type,
\* target_id): a second document of the same triple fails with code 11000
addLike(coll, doc) ==
    IF CopiesIn(doc, coll) > 0
    THEN [code |-> 11000, coll |-> coll]
    ELSE [code |-> 0, coll |-> coll (+) SetToBag({doc})]

\* Like.removeLike: deleteOne({user_id, target_type, target_id})
removeLike(coll, doc) ==
    IF CopiesIn(doc, coll) > 0 THEN coll (-) SetToBag({doc}) ELSE coll

LikeAnswer(handler, status, liked, count, message, caught) ==
    [handler |-> handler, status |-> status, message |-> message,
     liked |-> liked, count |-> count, caught |-> caught]

InitLikes ==
    /\ Unloaded
    /\ event = NoEvent
    /\ attending = EmptyBag
    /\ likes = EmptyBag
    /\ liking = EmptyBag
    /\ answer = NoAnswer

\* one invocation moves on from q to r
Moves(q, r) == (liking (-) SetToBag({q})) (+) SetToBag({r})

\* handleLike up to the answer of Like.userLikesTarget: an unaccepted target
\* type is refused; an existing like leads to the count, none to addLike
LikeFind(userId, targetType) ==
    /\ BagCardinality(liking) < MaxLiking
    /\ IF targetType \notin AcceptedTypes
       THEN /\ answer' = LikeAnswer("handleLike", 400, FALSE, 0,
                                    "Invalid target type", 0)
            /\ UNCHANGED liking
       ELSE /\ liking' = liking (+) SetToBag({
                  [handler |-> "handleLike", doc |-> LikeDoc(userId, targetType),
                   pc |-> IF userLikesTarget(likes, LikeDoc(userId, targetType))
                          THEN "countExisting" ELSE "addLike"]})
            /\ UNCHANGED answer
    /\ UNCHANGED <<event, attending, likes>>
    /\ UNCHANGED limiterVars

\* await Like.addLike(...) answers: the document is stored, or the call
\* throws the duplicate-key error and the catch block takes over
LikeAdd(q) ==
    /\ q.handler = "handleLike" /\ q.pc = "addLike"
    /\ LET r == addLike(likes, q.doc)
       IN  /\ likes' = r.coll
           /\ liking' = Moves(q, [q EXCEPT !.pc = IF r.code = 11000
                                                  THEN "countDuplicate"
                                                  ELSE "countNew"])
    /\ UNCHANGED <<event, attending, answer>>
    /\ UNCHANGED limiterVars

\* handleUnlike up to the answer of Like.userLikesTarget
UnlikeFind(userId, targetType) ==
    /\ BagCardinality(liking) < MaxLiking
    /\ IF targetType \notin AcceptedTypes
       THEN /\ answer' = LikeAnswer("handleUnlike", 400, FALSE, 0,
                                    "Invalid target type", 0)
            /\ UNCHANGED liking
       ELSE /\ liking' = liking (+) SetToBag({
                  [handler |-> "handleUnlike", doc |-> LikeDoc(userId, targetType),
                   pc |-> IF userLikesTarget(likes, LikeDoc(userId, targetType))
                          THEN "removeLike" ELSE "countAbsent"]})
            /\ UNCHANGED answer
    /\ UNCHANGED <<event, attending, likes>>
    /\ UNCHANGED limiterVars

\* await Like.removeLike(...) answers
UnlikeRemove(q) ==
    /\ q.handler = "handleUnlike" /\ q.pc = "removeLike"
    /\ likes' = removeLike(likes, q.doc)
    /\ liking' = Moves(q, [q EXCEPT !.pc = "countRemoved"])
    /\ UNCHANGED <<event, attending, answer>>
    /\ UNCHANGED limiterVars

CountPcs == {"countExisting", "countNew", "countDuplicate", "countAbsent", "countRemoved"}

\* await Like.getLikeCount(...) answers and the handler sends its response
LikeCount(q) ==
    /\ q.pc \in CountPcs
    /\ liking' = liking (-) SetToBag({q})
    /\ answer' =
          LikeAnswer(q.handler, 200, q.handler = "handleLike",
                     getLikeCount(likes, q.doc.target_type),
                     CASE q.pc = "countExisting" -> "Already liked"
                       [] q.pc = "countDuplicate" -> "Already liked"
                       [] q.pc = "countNew" -> "Content liked successfully"
                       [] q.pc = "countAbsent" -> "Not liked"
                       [] q.pc = "countRemoved" -> "Content unliked successfully",
                     IF q.pc = "countDuplicate" THEN 11000 ELSE 0)
    /\ UNCHANGED <<event, attending, likes>>
    /\ UNCHANGED limiterVars

NextLikes ==
    \/ \E u \in LikeUsers, t \in TargetTypes : LikeFind(u, t)
    \/ \E q \in BagToSet(liking) : LikeAdd(q)
    \/ \E u \in LikeUsers, t \in TargetTypes : UnlikeFind(u, t)
    \/ \E q \in BagToSet(liking) : UnlikeRemove(q)
    \/ \E q \in BagToSet(liking) : LikeCount(q)

SpecLikes == InitLikes /\ [][NextLikes]_vars

-----------------------------------------------------------------------------
(* Properties *)

Done == fin.pc = "done"
Admitted == Done /\ fin.nextCalled /\ fin.status = 0
Rejected == Done /\ fin.status = 429 /\ ~fin.nextCalled

\* the finished check was one of a window of the watched key that a single
\* limiter served, one check at a time, with every backend call answering
Orderly == Done /\ obs.seen /\ obs.wok /\ obs.failedOp = "none"

(* C1: for a limiter with maxRequests = N, in a window it serves alone, one  *)
(* request at a time and with the backend answering, a request is admitted   *)
(* (next() called, no response sent) when fewer than N requests were admitted*)
(* before it in the window, and rejected otherwise: the first N requests are *)
(* admitted, the Nth included, and the (N+1)th is rejected.                  *)
C1_FirstNAdmittedNextRejected ==
    Orderly =>
        /\ (obs.admBefore < fin.config.maxRequests => Admitted)
        /\ (obs.admBefore >= fin.config.maxRequests => Rejected)

\* the (N+1)th request of a window is rejected, here under Redis with N = 2
C1_Witness ==
    /\ Orderly /\ Rejected /\ obs.backend = "redis"
    /\ fin.config.maxRequests = 2 /\ obs.admBefore = 2

C3_RejectIs429AndStops ==
    /\ (Done /\ obs.decision = "reject") =>
          /\ fin.status = 429
          /\ fin.body.success = FALSE
          /\ fin.body.error = fin.config.message
          /\ fin.body.retryAfter >= 0
          /\ ~fin.nextCalled
          /\ ~fin.downstream
    /\ (Done /\ fin.status = 429) => obs.decision = "reject"

C3_Witness ==
    /\ Rejected /\ obs.decision = "reject" /\ obs.backend = "redis"
    /\ fin.body.error = "limit two"

(* C4: when get, setEx or incr fails during a check, the check ends with     *)
(* next() called, no response sent and no error leaving the limiter.         *)
C4_FailOpen ==
    (Done /\ obs.failedOp # "none") =>
        /\ fin.nextCalled
        /\ fin.status = 0
        /\ fin.body = NoBody
        /\ ~fin.threw

C4_Witness == Done /\ obs.failedOp = "incr" /\ fin.nextCalled

(* C5: after a check has observed a failure of the shared backend, the       *)
(* selector is in local mode (redisClient is null), so later checks use the  *)
(* memory store.                                                             *)
C5_FailureSwitchesToLocal ==
    (Done /\ obs.failedOp # "none") => redisClient = NoClient

\* the record a store holds for a key, if any
Rec(store, k) == IF k \in DOMAIN store THEN <<store[k]>> ELSE <<>>

(* C6: a check changes no record but that of its own key: in every step of   *)
(* the limiter (every step but the passing of time and the cleanup timer), a *)
(* key whose record changes in either store is the key of the check that     *)
(* decided in that step.                                                     *)
C6_OtherKeysUntouched ==
    [][ (now' = now /\ nextSweep' = nextSweep) =>
          \A k \in Keys :
             (Rec(memoryStore, k) # Rec(memoryStore', k)
                \/ Rec(redisStore, k) # Rec(redisStore', k))
             => (fin'.pc = "done" /\ fin'.key = k) ]_vars

\* a check has decided while another key holds a record
C6_Witness ==
    /\ Done
    /\ \E k \in DOMAIN memoryStore : k # fin.key
    /\ fin.key \in DOMAIN memoryStore

(* C7: a check under one policy never counts against, nor is decided by, a   *)
(* window that a different policy opened.                                    *)
C7_PoliciesIndependent ==
    (Done /\ obs.seen /\ obs.decision # "none") => ~obs.cross

(* C8: on every reject the retryAfter value is greater than 0 and at most    *)
(* ceil(windowMs / 1000) (both sides in thousandths of a second).            *)
C8_RetryAfterInRange ==
    (Done /\ obs.decision = "reject") =>
        /\ fin.body.retryAfter > 0
        /\ fin.body.retryAfter <= CeilSeconds(fin.config.windowMs) * 1000

(* C9: the predefined limiters enforce the documented limits per key:      *)
(* general 60 requests per minute, uploads 5 per 10 minutes, authentication  *)
(* 5 per minute, comments 10 per minute, marketplace 5 per hour.  In a       *)
(* window a predefined limiter serves alone, the documented number of        *)
(* requests is admitted and the next one is rejected with that limiter's     *)
(* message, and the window a request opens ends the documented time later.   *)
Documented ==
    { [limiter |-> generalLimiter, requests |-> 60, perMs |-> 60 * 1000],
      [limiter |-> uploadLimiter, requests |-> 5, perMs |-> 10 * 60 * 1000],
      [limiter |-> authLimiter, requests |-> 5, perMs |-> 60 * 1000],
      [limiter |-> commentLimiter, requests |-> 10, perMs |-> 60 * 1000],
      [limiter |-> marketplaceLimiter, requests |-> 5, perMs |-> 60 * 60 * 1000] }

C9_DocumentedLimits ==
    \A d \in Documented :
        (Orderly /\ fin.config = d.limiter) =>
            /\ (obs.admBefore < d.requests => Admitted)
            /\ (obs.admBefore >= d.requests =>
                    Rejected /\ fin.body.error = d.limiter.message)
            /\ (obs.admBefore = 0 /\ obs.backend = "memory" =>
                    memoryStore[fin.key].resetTime = now + d.perMs)
            /\ (obs.admBefore = 0 /\ obs.backend = "redis" /\ obs.prevCount = 0 =>
                    redisStore[fin.key].expireAt = now + d.perMs)

\* the sixth upload of a window is rejected with the upload limiter's message
C9_Witness ==
    /\ Orderly /\ Rejected /\ fin.config = uploadLimiter /\ obs.admBefore = 5
    /\ fin.body.error = "Upload limit exceeded, please wait before uploading again."

(* C10: under Redis, a request is never admitted when maxRequests requests   *)
(* have already been admitted for its key in the window, in any interleaving *)
(* of concurrent requests.                                                   *)
C10_NeverPastLimit ==
    (Admitted /\ obs.seen /\ obs.backend = "redis" /\ obs.failedOp = "none"
       /\ ~obs.cross)
    => obs.admBefore < fin.config.maxRequests

(* C11: one sweep of the cleanup timer removes from the memory store every   *)
(* record whose reset time has passed (now > resetTime) and leaves every     *)
(* other record as it was: same key, same count, same reset time; it adds    *)
(* no record.                                                                *)
C11_SweepRemovesExpiredOnly ==
    [][ nextSweep' # nextSweep =>
          /\ DOMAIN memoryStore' \subseteq DOMAIN memoryStore
          /\ \A k \in DOMAIN memoryStore :
                IF now > memoryStore[k].resetTime
                THEN k \notin DOMAIN memoryStore'
                ELSE k \in DOMAIN memoryStore' /\ memoryStore'[k] = memoryStore[k] ]_vars

\* a sweep has run and removed the watched key's record (the observer still
\* knows the window, the store no longer holds the key) while it kept the
\* unexpired record of another key
C11_Witness ==
    /\ nextSweep > SweepIntervalMs
    /\ watched \in DOMAIN win
    /\ watched \notin DOMAIN memoryStore
    /\ \E k \in DOMAIN memoryStore : now <= memoryStore[k].resetTime

(* C12: no limiter whose windowMs or maxRequests is not positive ever        *)
(* handles a request: building one fails, so no check is decided under such  *)
(* a configuration.                                                          *)
C12_NoMisconfiguredLimiter ==
    Done => (fin.config.windowMs > 0 /\ fin.config.maxRequests > 0)

(* C13: every check ends in a decision: whenever a check is awaiting the     *)
(* answer of a Redis call, a check eventually decides (next() is called or a *)
(* 429 is sent), also when the call is never answered.                       *)
C13_EveryCheckDecides == (inflight # EmptyBag) ~> Done

(* C14: a check that admits (next() called) does nothing but change the      *)
(* counter of its own key in the store it uses: it sends no response and     *)
(* sets no status, it leaves every other key's record and the other store as *)
(* they were, and it leaves redisClient and the cleanup timer as they were.  *)
C14_AdmitOnlyCounts ==
    [][ (fin.pc = "idle" /\ fin'.pc = "done" /\ fin'.nextCalled) =>
          /\ fin'.status = 0 /\ fin'.body = NoBody /\ ~fin'.threw
          /\ redisClient' = redisClient /\ redisUrl' = redisUrl
          /\ janitor' = janitor /\ nextSweep' = nextSweep
          /\ \A k \in Keys \ {fin'.key} :
                /\ Rec(memoryStore, k) = Rec(memoryStore', k)
                /\ Rec(redisStore, k) = Rec(redisStore', k)
          /\ (obs'.backend = "memory" => redisStore' = redisStore)
          /\ (obs'.backend = "redis" => memoryStore' = memoryStore) ]_vars

\* a check was admitted under Redis as the second of its window, while
\* another key holds a record
C14_Witness ==
    /\ Admitted /\ obs.backend = "redis" /\ obs.countAfter = 2
    /\ \E k \in DOMAIN redisStore : k # fin.key

(* C15: under Redis every counter key in the store carries an expiry, in     *)
(* every interleaving of concurrent checks and key expiry, so that no key    *)
(* outlives its window and none can stay rejected for ever.                 *)
C15_EveryKeyExpires ==
    \A k \in DOMAIN redisStore : redisStore[k].expireAt # NoExpire

(* C16: on a reject, retryAfter is the time left until the rejected key's    *)
(* window lapses, in seconds rounded up: ceil((resetTime - now) / 1000) in   *)
(* the memory store, the key's remaining time to live under Redis (for a     *)
(* key the rejecting limiter itself created).                                *)
C16_RetryAfterIsTimeLeft ==
    (Done /\ obs.decision = "reject") =>
        /\ (obs.backend = "memory" =>
                fin.body.retryAfter =
                    CeilSeconds(memoryStore[fin.key].resetTime - now) * 1000)
        /\ (obs.backend = "redis" /\ ~obs.cross
               /\ redisStore[fin.key].expireAt # NoExpire =>
                fin.body.retryAfter =
                    CeilSeconds(redisStore[fin.key].expireAt - now) * 1000)

(* C17: in the memory store, a check on a key that has no record, or whose   *)
(* record has now >= resetTime (now = resetTime included), replaces the      *)
(* record by {count: 1, resetTime: now + windowMs}; any other check that     *)
(* admits adds exactly 1 to count and leaves resetTime as it was.            *)
C17_TouchResetsAtResetTime ==
    [][ \A k \in Keys :
          (fin.pc = "idle" /\ fin'.pc = "done" /\ fin'.key = k
             /\ obs'.backend = "memory") =>
          IF k \notin DOMAIN memoryStore \/ now >= memoryStore[k].resetTime
          THEN memoryStore'[k] =
                  [count |-> 1, resetTime |-> now + fin'.config.windowMs]
          ELSE fin'.nextCalled =>
                  memoryStore'[k] =
                      [count |-> memoryStore[k].count + 1,
                       resetTime |-> memoryStore[k].resetTime] ]_vars

(* C18: within one key and one store no increment is lost: when a check of   *)
(* the key is admitted by the limiter that opened the key's window, with its *)
(* store calls answered, the count stored for the key equals the number of   *)
(* checks admitted on the key in that window, in any interleaving.           *)
C18_NoLostUpdate ==
    (Admitted /\ obs.seen /\ obs.failedOp = "none" /\ ~obs.cross) =>
        obs.countAfter = obs.adm

(* C19: local mode is absorbing: once redisClient is null (REDIS_URL unset   *)
(* at load, or the client dropped when its connection attempt failed) it     *)
(* stays null, no check issues a Redis call, nothing is written to Redis,    *)
(* and every check that decides is served by the memory store (or is a check *)
(* that was already awaiting Redis when the client was dropped and ends in   *)
(* the catch block).                                                         *)
C19_LocalModeAbsorbing ==
    [][ redisClient = NoClient =>
          /\ redisClient' = NoClient
          /\ \A q \in BagToSet(inflight') :
                CopiesIn(q, inflight') <= CopiesIn(q, inflight)
          /\ \A k \in DOMAIN redisStore' :
                k \in DOMAIN redisStore /\ redisStore'[k] = redisStore[k]
          /\ (fin.pc = "idle" /\ fin'.pc = "done") =>
                (obs'.backend = "memory" \/ obs'.failedOp # "none") ]_vars

\* REDIS_URL is set and the client existed at load (no cleanup timer was
\* installed), the client was dropped, and a check has been served by the
\* memory store
C19_Witness ==
    /\ redisUrl /\ ~janitor /\ redisClient = NoClient
    /\ Done /\ obs.backend = "memory"

(* C20: a check is sent to Redis only when REDIS_URL is set and the first    *)
(* connection attempt has already succeeded: a check that arrives while      *)
(* that attempt is still pending, or after it failed, is served by the       *)
(* memory store.                                                             *)
C20_RedisOnlyOnceConnected ==
    [][ BagCardinality(inflight') > BagCardinality(inflight) =>
          (redisUrl /\ redisClient = "ready") ]_vars

(* C21: whenever the memory store is the store in use (redisClient is null,  *)
(* whether REDIS_URL was unset or the connection failed) and holds records,  *)
(* the cleanup timer is installed, so that records whose reset time has      *)
(* passed are evicted without a further request for their key.               *)
C21_JanitorWhenLocal ==
    (redisClient = NoClient /\ DOMAIN memoryStore # {}) => janitor

\* the clock values from now on
Later == { now + d * 500 : d \in 0..MaxTicks }

(* C22: the cleanup sweeps change no decision: a sweep, wherever it falls,   *)
(* leaves unchanged what the memory-store branch answers for every key,      *)
(* every limiter and every time from now on (admit or reject, the retryAfter *)
(* value, and the record the answer leaves behind), and each check of the    *)
(* memory store answers exactly that; so a run with sweeps and the same run  *)
(* without them give the same decisions and retryAfter values.               *)
C22_SweepChangesNoDecision ==
    [][ /\ nextSweep' # nextSweep =>
              \A k \in Keys, rt \in TestRoutes, t \in Later :
                  MemoryOutcome(memoryStore', k, t, rt.limiter)
                      = MemoryOutcome(memoryStore, k, t, rt.limiter)
        /\ (fin.pc = "idle" /\ fin'.pc = "done" /\ obs'.backend = "memory") =>
              LET o == MemoryOutcome(memoryStore, fin'.key, now, fin'.config)
              IN  /\ obs'.decision = o.decision
                  /\ fin'.body.retryAfter = o.retryAfter
                  /\ memoryStore'[fin'.key] = o.record ]_vars

\* a sweep has run, and a check has then been decided for a key whose window
\* had run out and whose record the sweep had removed
C22_Witness ==
    /\ nextSweep > SweepIntervalMs
    /\ Admitted /\ obs.seen /\ obs.backend = "memory"
    /\ obs.elapsed /\ obs.prevCount = 0

\* the caller's identifier and the route discriminator, in the claim's words
Who(r) ==
    IF r.user # "" THEN r.user ELSE IF r.addr # "" THEN r.addr ELSE "unknown"
Where(url) == IF url # "" THEN url ELSE "default"

(* C23: the key of a check is a function of the request: it is built from    *)
(* the user id when req.user is set, else from the remote address, else from *)
(* the literal "unknown", and from the URL (or 'default'); two requests have *)
(* the same key exactly when that identifier and that URL are equal; and a   *)
(* request with neither user nor address is decided like any other, under    *)
(* the key of "unknown", without an error.                                   *)
C23_KeyIsFunctionOfIdentity ==
    /\ \A c1 \in AnyClients, c2 \in AnyClients, u1 \in AnyUrls, u2 \in AnyUrls :
          (KeyOf(c1, u1) = KeyOf(c2, u2))
              <=> (Who(c1) = Who(c2) /\ Where(u1) = Where(u2))
    /\ Done =>
          /\ fin.key = "rate_limit:" \o Who(fin.req) \o ":" \o Where(fin.req.url)
          /\ ~fin.threw
          /\ (Admitted /\ obs.backend = "memory") =>
                (fin.key \in DOMAIN memoryStore /\ memoryStore[fin.key].count >= 1)
          /\ (Admitted /\ obs.backend = "redis" /\ obs.failedOp = "none") =>
                (fin.key \in DOMAIN redisStore /\ redisStore[fin.key].val >= 1)

\* requests with no user, no address and no URL were counted: one more such
\* request in the window is rejected under the key of "unknown" and 'default'
C23_Witness ==
    /\ Rejected /\ fin.req.user = "" /\ fin.req.addr = "" /\ fin.req.url = ""
    /\ fin.key = "rate_limit:unknown:default"

(* C24: every invocation of a limiter that comes to its end has exactly one  *)
(* outcome: next() called once and no response sent, or one 429 response     *)
(* sent and next() not called; never both and never neither.                 *)
C24_ExactlyOneOutcome ==
    Done =>
        \/ fin.nexts = 1 /\ fin.sent = 0 /\ fin.status = 0 /\ fin.body = NoBody
        \/ fin.nexts = 0 /\ fin.sent = 1 /\ fin.status = 429

\* both outcomes occur: here the one 429 of a check rejected under Redis
C24_Witness ==
    Done /\ fin.nexts = 0 /\ fin.sent = 1 /\ obs.backend = "redis"

\* the limiters that check a key on the routes
PoliciesOf(k) ==
    { rt.limiter : rt \in { r \in Routes : \E c \in Clients : KeyOf(c, r.url) = k } }

(* C25: in the memory store, the record of a key that one limiter alone      *)
(* checks always has 1 <= count <= maxRequests; and a rejected check leaves  *)
(* the store as it was: the record's count and reset time do not change.     *)
C25_CountWithinLimit ==
    [][ /\ \A k \in DOMAIN memoryStore' :
              \A config \in PoliciesOf(k) :
                  PoliciesOf(k) = {config} =>
                      /\ 1 <= memoryStore'[k].count
                      /\ memoryStore'[k].count <= config.maxRequests
        /\ (fin.pc = "idle" /\ fin'.pc = "done" /\ obs'.backend = "memory"
              /\ obs'.decision = "reject") => memoryStore' = memoryStore ]_vars

\* the register route's key, which authLimiter alone checks, stands at its
\* limit of 5 and a check of it has been rejected
C25_Witness ==
    /\ Rejected /\ obs.backend = "memory" /\ fin.config = authLimiter
    /\ PoliciesOf(fin.key) = {authLimiter}
    /\ memoryStore[fin.key].count = 5

(* C26: on POST /api/comments the comment limiter counts a request of an     *)
(* authenticated user under that user's id: the key of the check is built    *)
(* from the id of the user who sent it, so that users with different ids     *)
(* behind one address have separate windows.                                 *)
C26_CountedByUserId ==
    (Done /\ fin.req.token # NoUser) =>
        fin.key = "rate_limit:" \o fin.req.token \o ":" \o fin.req.url

(* C27: every invocation of a route handler that awaits a limiter returns,   *)
(* when the limiter admits and when it rejects: no invocation comes to its   *)
(* end in the model without the handler having returned.                     *)
C27_HandlerReturns ==
    [][ (fin.pc = "done" /\ fin'.pc = "idle") => fin.returned ]_vars

(* C28: for an event with max_attendees set, current_attendees never exceeds *)
(* max_attendees, in any interleaving of concurrent attend requests.         *)
C28_NeverOverCapacity ==
    event.max_attendees # 0 => event.current_attendees <= event.max_attendees

\* the invocation q left its position pc in this step
Leaves(q) == CopiesIn(q, liking') < CopiesIn(q, liking)

\* C29: likes are idempotent per (user, target). No user ever has more than
\* one like document of a target, however like requests interleave; every
\* like request of an accepted target answers 200 with liked true, and the
\* one whose insert fails on the duplicate key answers 'Already liked'; the
\* removal of an unlike leaves no document of the pair; an unlike that finds
\* no like leaves the collection as it is and answers liked false, 'Not liked'.
C29_LikesIdempotent ==
    [][ /\ \A d \in BagToSet(likes') : CopiesIn(d, likes') <= 1
        /\ \A q \in BagToSet(liking) :
              /\ (q.handler = "handleLike" /\ q.pc \in CountPcs /\ Leaves(q)) =>
                    /\ answer'.handler = "handleLike"
                    /\ answer'.status = 200
                    /\ answer'.liked
                    /\ (q.pc = "countDuplicate" => answer'.message = "Already liked")
              /\ (q.handler = "handleLike" /\ q.pc = "addLike" /\ Leaves(q)) =>
                    CopiesIn(q.doc, likes') = 1
              /\ (q.handler = "handleUnlike" /\ q.pc = "removeLike" /\ Leaves(q)) =>
                    CopiesIn(q.doc, likes') = 0
              /\ (q.handler = "handleUnlike" /\ q.pc = "countAbsent" /\ Leaves(q)) =>
                    /\ likes' = likes
                    /\ answer'.status = 200
                    /\ ~answer'.liked
                    /\ answer'.message = "Not liked"
        /\ \A q \in BagToSet(liking') :
              (q.handler = "handleUnlike" /\ q.pc = "countAbsent"
                 /\ CopiesIn(q, liking') > CopiesIn(q, liking)) => likes' = likes
      ]_vars

\* two like requests of one user on one target ran side by side: the second
\* insert failed on the duplicate key, was answered 'Already liked' with
\* liked true, and one document of the pair is stored
C29_Witness ==
    /\ answer.handler = "handleLike"
    /\ answer.caught = 11000
    /\ answer.status = 200
    /\ answer.liked
    /\ answer.message = "Already liked"
    /\ CopiesIn(LikeDoc("alice", "event"), likes) = 1

====
